---- MODULE Spec2Model ----
(***************************************************************************)
(* Binary provisioning and integrity pipeline of the revyl Python package  *)
(* (revyl/_binary.py) together with the package-level entry points of      *)
(* revyl/__init__.py.                                                      *)
(*                                                                         *)
(* Text is modelled as a sequence of atoms: an atom is one character, or   *)
(* an unsplittable run of non-blank characters (a host name, a piece of    *)
(* an asset name).  File contents are sequences of bytes.                  *)
(***************************************************************************)
EXTENDS Integers, Sequences, FiniteSets, TLC

\* ------------------------------------------------------------------ bounds
\* Longest manifest (in lines) the release server is made to serve.
MaxLines == 2

\* ------------------------------------------------------------------- text
None == "None"

\* str.strip()/str.split() treat these as blanks.
Whitespace == {" ", "\n"}

\* A str.lower() that leaves the letters as they are.
KeepCase(a) == a

\* str.lower() on one atom.
LowerAtom(a) ==
  CASE a = "A" -> "a"
    [] a = "B" -> "b"
    [] a = "Linux" -> "linux"
    [] a = "Windows" -> "windows"
    [] a = "Darwin" -> "darwin"
    [] a = "SunOS" -> "sunos"
    [] a = "AMD64" -> "amd64"
    [] a = "ARM64" -> "arm64"
    [] a = "LINUX" -> "linux"
    [] a = "WINDOWS" -> "windows"
    [] a = "DARWIN" -> "darwin"
    [] a = "FreeBSD" -> "freebsd"
    [] a = "Java" -> "java"
    [] a = "X86_64" -> "x86_64"
    [] a = "Amd64" -> "amd64"
    [] a = "AARCH64" -> "aarch64"
    [] a = "RISCV64" -> "riscv64"
    [] OTHER -> a

Lower(s) == [i \in DOMAIN s |-> LowerAtom(s[i])]

RECURSIVE LStrip(_)
LStrip(s) ==
  IF s # <<>> /\ Head(s) \in Whitespace THEN LStrip(Tail(s)) ELSE s

RECURSIVE RStrip(_)
RStrip(s) ==
  IF s # <<>> /\ s[Len(s)] \in Whitespace
    THEN RStrip(SubSeq(s, 1, Len(s) - 1))
    ELSE s

Strip(s) == RStrip(LStrip(s))

\* str.lstrip("*")
RECURSIVE LStripStar(_)
LStripStar(s) ==
  IF s # <<>> /\ Head(s) = "*" THEN LStripStar(Tail(s)) ELSE s

\* str.splitlines(): lines end at "\n"; a final unterminated line counts,
\* an empty tail after the last "\n" does not.
RECURSIVE SplitLinesFrom(_, _)
SplitLinesFrom(s, cur) ==
  IF s = <<>> THEN (IF cur = <<>> THEN <<>> ELSE <<cur>>)
  ELSE IF Head(s) = "\n" THEN <<cur>> \o SplitLinesFrom(Tail(s), <<>>)
  ELSE SplitLinesFrom(Tail(s), Append(cur, Head(s)))

SplitLines(s) == SplitLinesFrom(s, <<>>)

\* Index of the first blank of s, or Len(s) + 1.
RECURSIVE FirstBlank(_, _)
FirstBlank(s, i) ==
  IF i > Len(s) \/ s[i] \in Whitespace THEN i ELSE FirstBlank(s, i + 1)

\* str.split(maxsplit=1): the first blank-delimited token and, when
\* anything but blanks follows it, the whole remainder.
SplitOnce(line) ==
  LET s    == LStrip(line)
      k    == FirstBlank(s, 1)
      rest == LStrip(SubSeq(s, k, Len(s)))
  IN IF s = <<>> THEN <<>>
     ELSE IF rest = <<>> THEN <<SubSeq(s, 1, k - 1)>>
     ELSE <<SubSeq(s, 1, k - 1), rest>>

\* A dict that keeps the first value stored under a key.
DictPutOnce(d, k, v) ==
  [x \in DOMAIN d \cup {k} |-> IF x \in DOMAIN d THEN d[x] ELSE v]

\* dict[key] = value
DictPut(d, k, v) == [x \in DOMAIN d \cup {k} |-> IF x = k THEN v ELSE d[x]]

EmptyDict == [x \in {} |-> None]

\* One iteration of the loop of _parse_checksums.
ParseLine(checksums, rawline) ==
  LET line  == Strip(rawline)
      parts == SplitOnce(line)
  IN IF line = <<>> \/ Head(line) = "#" THEN checksums
     ELSE IF Len(parts) # 2 THEN checksums
     ELSE LET filename == Strip(LStripStar(parts[2]))
              digest   == Lower(Strip(parts[1]))
          IN IF digest # <<>> /\ filename # <<>>
               THEN DictPut(checksums, filename, digest)
               ELSE checksums

RECURSIVE ParseLines(_, _)
ParseLines(lines, checksums) ==
  IF lines = <<>> THEN checksums
  ELSE ParseLines(Tail(lines), ParseLine(checksums, Head(lines)))

_parse_checksums(raw_checksums) == ParseLines(SplitLines(raw_checksums), EmptyDict)

\* ------------------------------------------------------ platform and names
\* (platform.system(), platform.machine()) of the hosts considered.
Hosts ==
  { [system |-> "Linux", machine |-> "x86_64"],
    [system |-> "Windows", machine |-> "AMD64"],
    [system |-> "SunOS", machine |-> "x86_64"],
    [system |-> "Linux", machine |-> "riscv64"] }

NoPlatform == [ok |-> FALSE, error |-> "", platform_str |-> "", arch_str |-> "", ext |-> ""]

get_platform_info(h) ==
  LET system  == LowerAtom(h.system)
      machine == LowerAtom(h.machine)
  IN IF system \notin {"darwin", "linux", "windows"}
       THEN [NoPlatform EXCEPT !.error = "Unsupported platform"]
     ELSE IF machine \notin {"x86_64", "amd64", "arm64", "aarch64"}
       THEN [NoPlatform EXCEPT !.error = "Unsupported architecture"]
     ELSE [ok |-> TRUE, error |-> "",
           platform_str |-> system,
           arch_str |-> IF machine \in {"x86_64", "amd64"} THEN "amd64" ELSE "arm64",
           ext |-> IF system = "windows" THEN ".exe" ELSE ""]

\* f"revyl-{platform_str}-{arch_str}{ext}"
_binary_name(h) ==
  LET info == get_platform_info(h)
  IN <<"revyl-", info.platform_str, "-", info.arch_str>>
       \o (IF info.ext = "" THEN <<>> ELSE <<info.ext>>)

Versions == {"latest", "v0.1.4"}

\* The URL as its path below https://github.com/RevylAI/revyl-cli/.
_release_asset_url(asset_name, version) ==
  IF version = "latest"
    THEN <<"releases", "latest", "download", asset_name>>
    ELSE <<"releases", "download", version, asset_name>>

ChecksumsTxt == <<"checksums.txt">>

\* ---------------------------------------------------------------- digests
\* Release payloads the server may serve for the asset.
Payloads == { <<1, 2>>, <<2, 1>> }

HexDigit(b) == IF b = 1 THEN "a" ELSE "b"

LenDigit(n) == CASE n = 0 -> "0" [] n = 1 -> "1" [] n = 2 -> "2" [] OTHER -> "9"

\* hashlib.sha256(...).hexdigest() of a file's bytes: lower-case hex,
\* different for different contents.
_sha256_file(data) == <<LenDigit(Len(data))>> \o [i \in DOMAIN data |-> HexDigit(data[i])]

UpperAtom(a) == CASE a = "a" -> "A" [] a = "b" -> "B" [] OTHER -> a

Upper(s) == [i \in DOMAIN s |-> UpperAtom(s[i])]

\* ----------------------------------------------------------- server inputs
\* Lines a release's checksums.txt may hold, for the asset name n.
ManifestLines(n) ==
  { _sha256_file(<<1, 2>>) \o <<" ", " ">> \o n,
    Upper(_sha256_file(<<2, 1>>)) \o <<" ", "*">> \o n,
    <<"#", " ">> \o _sha256_file(<<1, 2>>) \o <<" ">> \o n,
    _sha256_file(<<1, 2>>),
    <<"d", "e", "a", "d", " ", " ", "revyl-other-binary">>,
    <<>> }

RECURSIVE JoinLines(_)
JoinLines(lines) ==
  IF lines = <<>> THEN <<>> ELSE Head(lines) \o <<"\n">> \o JoinLines(Tail(lines))

SeqsUpTo(S, n) == UNION { [1..k -> S] : k \in 0..n }

Manifests(n) == { JoinLines(ls) : ls \in SeqsUpTo(ManifestLines(n), MaxLines) }

\* ------------------------------------------------------------------ files
NoFile == [exists |-> FALSE, data |-> <<>>, x |-> FALSE]

File(d, x) == [exists |-> TRUE, data |-> d, x |-> x]

NoText == [exists |-> FALSE, text |-> <<>>]

Text(t) == [exists |-> TRUE, text |-> t]

\* What may lie at <home>/.revyl/bin/<asset> before the package runs or
\* after somebody else touched it.
BinaryFiles ==
  { NoFile, File(<<1, 2>>, TRUE), File(<<2, 1>>, TRUE), File(<<1>>, TRUE),
    File(<<1, 2>>, FALSE) }

\* Likewise for <asset>.sha256.
SidecarFiles ==
  { NoText, Text(<<>>),
    Text(_sha256_file(<<1, 2>>) \o <<"\n">>),
    Text(<<" ">> \o Upper(_sha256_file(<<1, 2>>)) \o <<" ", "\n">>),
    Text(_sha256_file(<<2, 1>>) \o <<"\n">>) }

\* ------------------------------------------------------------------ state
VARIABLES
  procs,    \* the processes that use the artifact path
  host,     \* the machine they run on
  bin,      \* the file at the final artifact path
  sidecar,  \* the file <artifact path>.sha256
  tmp,      \* per process: the temporary file of its current or last call
  pc,       \* per process: its position in the call
  call,     \* per process: the entry point called and its arguments
  loc,      \* per process: local variables of the call
  net,      \* per process: the URLs requested by the call, in order
  pre,      \* per process: the artifact files when the call started
  res,      \* per process: how the call ended
  last,     \* how the previous call ended, if it was ensure_binary
  fn,       \* the function applied on its own: its name, argument and result
  client    \* the SDK's DeviceClient: tracked session and its last command

\* The state of the provisioning pipeline.
pipeline == <<procs, host, bin, sidecar, tmp, pc, call, loc, net, pre, res, last>>

vars == <<pipeline, fn, client>>

Modules == {"_binary", "__init__"}

Entries == {"download_binary", "ensure_binary", "main"}

NoCall == [module |-> "", entry |-> "", version |-> ""]

NoLocals ==
  [expected_checksum |-> <<>>,  \* download_binary: the manifest's digest
   temp_path |-> FALSE,         \* download_binary: temp_path is not None
   actual_checksum |-> <<>>,    \* download_binary: the temporary file's digest
   expected |-> <<>>,           \* _is_verified_binary: the sidecar's digest
   gate |-> "",                 \* what _is_verified_binary returned
   io_error |-> FALSE,          \* an I/O error hit _is_verified_binary
   manifest |-> "",             \* checksums.txt arrived: "listed" or "unlisted"
   downloaded |-> <<>>,         \* the asset's bytes, once they all arrived
   verified |-> FALSE]          \* the digests compared equal in this call

\* kind: "return" or "raise"; exc: the exception raised, or caught by
\* main; child: the exit status of the child process, when it ran.
NoResult ==
  [kind |-> "", exc |-> "", msg |-> "", path |-> FALSE, code |-> -1,
   child |-> -1, stderr |-> "", pointer |-> FALSE]

NoLast == [seen |-> FALSE, ok |-> FALSE, net |-> FALSE]

\* return binary_path
ReturnPath == [NoResult EXCEPT !.kind = "return", !.path = TRUE]

\* return <exit status>
ReturnCode(c) == [NoResult EXCEPT !.kind = "return", !.code = c]

\* An exception leaving the entry point.
Raised(exc, msg) == [NoResult EXCEPT !.kind = "raise", !.exc = exc, !.msg = msg]

\* The except clauses of revyl._binary.main.
main_binary(exc, msg) ==
  IF exc = "KeyboardInterrupt" THEN [ReturnCode(130) EXCEPT !.exc = exc]
  ELSE IF exc = "RuntimeError"
    THEN [ReturnCode(1) EXCEPT !.exc = exc, !.msg = msg,
                               !.stderr = "Error", !.pointer = TRUE]
  ELSE [ReturnCode(1) EXCEPT !.exc = exc, !.msg = msg,
                             !.stderr = "Error running Revyl"]

\* The except clauses of revyl.main: one try around ensure_binary, another
\* around subprocess.run.
main_init(phase, exc, msg) ==
  IF phase = "provision"
    THEN IF exc = "RuntimeError"
           THEN [ReturnCode(1) EXCEPT !.exc = exc, !.msg = msg,
                                      !.stderr = "Error", !.pointer = TRUE]
           ELSE Raised(exc, msg)
  ELSE IF exc = "KeyboardInterrupt" THEN [ReturnCode(130) EXCEPT !.exc = exc]
  ELSE [ReturnCode(1) EXCEPT !.exc = exc, !.msg = msg,
                             !.stderr = "Error running Revyl"]

\* How an exception raised in `phase` of call c reaches the caller of c.
Propagate(c, phase, exc, msg) ==
  IF c.entry # "main" THEN Raised(exc, msg)
  ELSE IF c.module = "_binary" THEN main_binary(exc, msg)
  ELSE main_init(phase, exc, msg)

\* No function is being studied on its own.
NoFn == [name |-> "", arg |-> <<>>, out |-> <<>>, io |-> <<>>]

\* No DeviceClient is in use.
NoClient == FALSE

Idle(p) == pc[p] = "idle"

\* The call of p ends with result r.
Ends(p, r) ==
  /\ pc' = [pc EXCEPT ![p] = "done"]
  /\ res' = [res EXCEPT ![p] = r]

\* The call of p ends with an exception raised while provisioning.
Throws(p, exc, msg) == Ends(p, Propagate(call[p], "provision", exc, msg))

\* The call of p goes on at position q.
Goto(p, q) ==
  /\ pc' = [pc EXCEPT ![p] = q]
  /\ res' = res

Init ==
  /\ procs = {1}
  /\ host \in Hosts
  /\ bin \in BinaryFiles
  /\ sidecar \in SidecarFiles
  /\ tmp = [p \in procs |-> NoFile]
  /\ pc = [p \in procs |-> "idle"]
  /\ call = [p \in procs |-> NoCall]
  /\ loc = [p \in procs |-> NoLocals]
  /\ net = [p \in procs |-> <<>>]
  /\ pre = [p \in procs |-> [bin |-> NoFile, sidecar |-> NoText]]
  /\ res = [p \in procs |-> NoResult]
  /\ last = NoLast
  /\ fn = NoFn
  /\ client = NoClient

\* A caller invokes one of the package's entry points.
Call(p) ==
  /\ Idle(p)
  /\ \E m \in Modules, e \in Entries, v \in Versions :
       /\ (e # "download_binary") => v = "latest"
       /\ call' = [call EXCEPT ![p] = [module |-> m, entry |-> e, version |-> v]]
       /\ pc' = [pc EXCEPT ![p] =
                   IF m = "_binary"
                     THEN (IF e = "download_binary" THEN "dl_fetch" ELSE "ensure_path")
                     ELSE (IF e = "download_binary" THEN "i_download" ELSE "i_ensure")]
  /\ pre' = [pre EXCEPT ![p] = [bin |-> bin, sidecar |-> sidecar]]
  /\ UNCHANGED <<fn, client, procs, host, bin, sidecar, tmp, loc, net, res, last>>

\* The call returned or raised and the caller has the result; the call's
\* frame is gone, and the model stops following its temporary file.
Finish(p) ==
  /\ pc[p] = "done"
  /\ pc' = [pc EXCEPT ![p] = "idle"]
  /\ last' = IF call[p].module = "_binary" /\ call[p].entry = "ensure_binary"
               THEN [seen |-> TRUE, ok |-> res[p].kind = "return", net |-> net[p] # <<>>]
               ELSE NoLast
  /\ tmp' = [tmp EXCEPT ![p] = NoFile]
  /\ call' = [call EXCEPT ![p] = NoCall]
  /\ loc' = [loc EXCEPT ![p] = NoLocals]
  /\ net' = [net EXCEPT ![p] = <<>>]
  /\ pre' = [pre EXCEPT ![p] = [bin |-> NoFile, sidecar |-> NoText]]
  /\ res' = [res EXCEPT ![p] = NoResult]
  /\ UNCHANGED <<fn, client, procs, host, bin, sidecar>>

\* Somebody other than the package rewrites the artifact files between calls.
Tamper ==
  /\ \A p \in procs : Idle(p)
  /\ bin' \in BinaryFiles
  /\ sidecar' \in SidecarFiles
  /\ <<bin', sidecar'>> # <<bin, sidecar>>
  /\ last' = NoLast
  /\ UNCHANGED <<fn, client, procs, host, tmp, pc, call, loc, net, pre, res>>

\* -------------------------------------------------- revyl._binary: ensure
\* binary_path was returned to ensure_binary's caller: main goes on to run
\* it, any other caller has its result.
PathReturned(p) ==
  IF call[p].entry = "main"
    THEN Goto(p, IF call[p].module = "_binary" THEN "run_child" ELSE "i_run_child")
    ELSE Ends(p, ReturnPath)

\* An ensure_binary that hands out the path whatever the check said.
GateFalseReturnsPath(p, io_error) ==
  /\ loc' = [loc EXCEPT ![p].gate = "untrusted", ![p].io_error = io_error]
  /\ PathReturned(p)

\* _is_verified_binary returned False: ensure_binary calls download_binary().
GateFalse(p, io_error) ==
  /\ loc' = [loc EXCEPT ![p].gate = "untrusted", ![p].io_error = io_error]
  /\ Goto(p, "dl_fetch")

\* Outcomes of revyl_dir.mkdir(parents=True, exist_ok=True): it cannot fail
\* while a file of the directory is there.
Mkdir == IF bin.exists \/ sidecar.exists THEN {"ok"} ELSE {"ok", "OSError"}

\* ensure_binary: get_binary_path() makes the directory, then names the asset.
EnsurePath(p) ==
  /\ pc[p] = "ensure_path"
  /\ \E io \in Mkdir :
       IF io = "OSError" THEN Throws(p, "OSError", "mkdir")
       ELSE IF ~get_platform_info(host).ok
         THEN Throws(p, "RuntimeError", get_platform_info(host).error)
       ELSE Goto(p, "gate_binary")
  /\ UNCHANGED <<fn, client, procs, host, bin, sidecar, tmp, call, loc, net, pre, last>>

\* Outcomes of Path.exists(): it answers False for a missing file, and
\* re-raises any other error of stat(), such as PermissionError on a
\* directory that may not be searched.
Stat == {"ok", "OSError"}

\* exists() raised inside _is_verified_binary, outside its try: the error
\* leaves the check and ensure_binary.
GateRaises(p) ==
  /\ loc' = [loc EXCEPT ![p].io_error = TRUE]
  /\ Throws(p, "OSError", "stat")

\* _is_verified_binary: binary_path.exists()
GateBinary(p) ==
  /\ pc[p] = "gate_binary"
  /\ \E io \in Stat :
       IF io = "OSError" THEN GateRaises(p)
       ELSE IF bin.exists
         THEN Goto(p, "gate_sidecar") /\ loc' = loc
       ELSE GateFalse(p, FALSE)
  /\ UNCHANGED <<fn, client, procs, host, bin, sidecar, tmp, call, net, pre, last>>

\* _is_verified_binary: checksum_file.exists()
GateSidecar(p) ==
  /\ pc[p] = "gate_sidecar"
  /\ \E io \in Stat :
       IF io = "OSError" THEN GateRaises(p)
       ELSE IF sidecar.exists
         THEN Goto(p, "gate_read") /\ loc' = loc
       ELSE GateFalse(p, FALSE)
  /\ UNCHANGED <<fn, client, procs, host, bin, sidecar, tmp, call, net, pre, last>>

\* A sidecar read that keeps the letter case.
SidecarDigestCased(text) == Strip(text)

\* A sidecar read that keeps the surrounding blanks.
SidecarDigestUntrimmed(text) == Lower(text)

\* checksum_file.read_text(encoding="utf-8").strip().lower()
SidecarDigest(text) == Lower(Strip(text))

\* return actual == expected
GateVerdict(actual, expected) == actual = expected

\* _is_verified_binary: expected = read_text().strip().lower(); an empty
\* digest or an error reading it is "not verified".
GateRead(p) ==
  /\ pc[p] = "gate_read"
  /\ \E io \in {"ok", "OSError"} :
       LET expected == SidecarDigest(sidecar.text)
       IN IF io = "OSError" \/ ~sidecar.exists THEN GateFalse(p, TRUE)
          ELSE IF expected = <<>> THEN GateFalse(p, FALSE)
          ELSE /\ loc' = [loc EXCEPT ![p].expected = expected]
               /\ Goto(p, "gate_hash")
  /\ UNCHANGED <<fn, client, procs, host, bin, sidecar, tmp, call, net, pre, last>>

\* _is_verified_binary: actual = _sha256_file(binary_path); the result is
\* actual == expected.  ensure_binary returns the path on True.
GateHash(p) ==
  /\ pc[p] = "gate_hash"
  /\ \E io \in {"ok", "OSError", "KeyboardInterrupt"} :
       IF io = "KeyboardInterrupt"
         THEN Throws(p, "KeyboardInterrupt", "") /\ loc' = loc
       ELSE IF io = "OSError" \/ ~bin.exists THEN GateFalse(p, TRUE)
       ELSE IF GateVerdict(_sha256_file(bin.data), loc[p].expected)
         THEN /\ loc' = [loc EXCEPT ![p].gate = "trusted"]
              /\ PathReturned(p)
       ELSE GateFalse(p, FALSE)
  /\ UNCHANGED <<fn, client, procs, host, bin, sidecar, tmp, call, net, pre, last>>

\* ------------------------------------------------ revyl._binary: download
\* An except clause that wraps the error and leaves the temporary file.
DownloadFailedKeepsTemp(p, has_temp_path, t, msg) ==
  /\ tmp' = [tmp EXCEPT ![p] = t]
  /\ Throws(p, "RuntimeError", msg)

\* The except clause of download_binary, entered with the temporary file
\* in state t: the file is unlinked when temp_path was assigned, and the
\* error is wrapped.  The unlink is taken to succeed; the code swallows its
\* failure.
DownloadFailed(p, has_temp_path, t, msg) ==
  /\ tmp' = [tmp EXCEPT ![p] = IF has_temp_path THEN NoFile ELSE t]
  /\ Throws(p, "RuntimeError", msg)

\* checksums.get(binary_name), None being the empty text.
Expected(checksums, binary_name) ==
  IF binary_name \in DOMAIN checksums THEN checksums[binary_name] ELSE <<>>

\* A fetch that takes whatever the lookup gave.
ChecksumNeverMissing(expected) == FALSE

\* _fetch_expected_checksum: if not expected
ChecksumMissing(expected) == expected = <<>>

\* A download that does not compare the digests.
ChecksumNeverMismatch(actual_checksum, expected_checksum) == FALSE

\* download_binary: if actual_checksum != expected_checksum
ChecksumMismatch(actual_checksum, expected_checksum) ==
  actual_checksum # expected_checksum

\* download_binary up to _fetch_expected_checksum: the platform is
\* resolved, checksums.txt is requested, parsed and searched for the asset.
DlFetch(p) ==
  /\ pc[p] = "dl_fetch"
  /\ LET info        == get_platform_info(host)
         binary_name == _binary_name(host)
         url         == _release_asset_url(ChecksumsTxt, call[p].version)
     IN IF ~info.ok
          THEN Throws(p, "RuntimeError", info.error) /\ UNCHANGED <<net, loc>>
          ELSE /\ net' = [net EXCEPT ![p] = Append(@, url)]
               /\ \/ /\ Throws(p, "RuntimeError", "Failed to download checksums")
                     /\ loc' = loc
                  \/ /\ Throws(p, "KeyboardInterrupt", "")
                     /\ loc' = loc
                  \/ \E raw_checksums \in Manifests(binary_name) :
                       LET checksums == _parse_checksums(raw_checksums)
                           expected  == Expected(checksums, binary_name)
                           listed    == IF binary_name \in DOMAIN checksums
                                          THEN "listed" ELSE "unlisted"
                       IN IF ChecksumMissing(expected)
                            THEN /\ Throws(p, "RuntimeError", "No checksum found")
                                 /\ loc' = [loc EXCEPT ![p].manifest = listed]
                            ELSE /\ loc' = [loc EXCEPT ![p].manifest = listed,
                                                       ![p].expected_checksum = expected]
                                 /\ Goto(p, "dl_path")
  /\ UNCHANGED <<fn, client, procs, host, bin, sidecar, tmp, call, pre, last>>

\* download_binary: binary_path = get_binary_path()
DlPath(p) ==
  /\ pc[p] = "dl_path"
  /\ \E io \in Mkdir :
       IF io = "OSError" THEN Throws(p, "OSError", "mkdir") ELSE Goto(p, "dl_temp")
  /\ UNCHANGED <<fn, client, procs, host, bin, sidecar, tmp, call, loc, net, pre, last>>

\* Proper prefixes of a payload: what a broken stream leaves behind.
Prefixes(d) == { SubSeq(d, 1, k) : k \in 0..(Len(d) - 1) }

\* A download that streams the asset to the final path, as urlretrieve(url,
\* binary_path) does.
DlTempToFinalPath(p) ==
  /\ pc[p] = "dl_temp"
  /\ net' = [net EXCEPT ![p] =
               Append(@, _release_asset_url(_binary_name(host), call[p].version))]
  /\ \E d \in Payloads : \E part \in Prefixes(d) :
       /\ bin' = File(part, FALSE)
       /\ loc' = loc
       /\ DownloadFailed(p, FALSE, NoFile, "Failed to download binary: copy")
  /\ UNCHANGED <<fn, client, procs, host, sidecar, call, pre, last>>

\* download_binary: temp_path = _download_to_temp(binary_url, suffix).  The
\* asset is requested and copied into a new temporary file; temp_path is
\* assigned only when the copy completed.
DlTemp(p) ==
  /\ pc[p] = "dl_temp"
  /\ net' = [net EXCEPT ![p] =
               Append(@, _release_asset_url(_binary_name(host), call[p].version))]
  /\ \/ /\ DownloadFailed(p, loc[p].temp_path, tmp[p],
                           "Failed to download binary: urlopen")
        /\ loc' = loc
     \/ \E d \in Payloads : \E part \in Prefixes(d) :
          /\ loc' = loc
          /\ \/ DownloadFailed(p, loc[p].temp_path, File(part, FALSE),
                               "Failed to download binary: copy")
             \/ /\ tmp' = [tmp EXCEPT ![p] = File(part, FALSE)]
                /\ Throws(p, "KeyboardInterrupt", "")
     \/ \E d \in Payloads :
          /\ tmp' = [tmp EXCEPT ![p] = File(d, FALSE)]
          /\ loc' = [loc EXCEPT ![p].temp_path = TRUE, ![p].downloaded = d]
          /\ Goto(p, "dl_hash")
  /\ UNCHANGED <<fn, client, procs, host, bin, sidecar, call, pre, last>>

\* download_binary: actual_checksum = _sha256_file(temp_path), compared
\* with expected_checksum.
DlHash(p) ==
  /\ pc[p] = "dl_hash"
  /\ \E io \in {"ok", "OSError", "KeyboardInterrupt"} :
       IF io = "KeyboardInterrupt"
         THEN Throws(p, "KeyboardInterrupt", "") /\ UNCHANGED <<tmp, loc>>
       ELSE IF io = "OSError"
         THEN /\ DownloadFailed(p, loc[p].temp_path, tmp[p],
                                "Failed to download binary: read")
              /\ loc' = loc
       ELSE LET actual_checksum == _sha256_file(tmp[p].data)
            IN IF ChecksumMismatch(actual_checksum, loc[p].expected_checksum)
                 THEN /\ DownloadFailed(p, loc[p].temp_path, tmp[p],
                           "Failed to download binary: Checksum verification failed")
                      /\ loc' = [loc EXCEPT ![p].actual_checksum = actual_checksum]
                 ELSE /\ loc' = [loc EXCEPT ![p].actual_checksum = actual_checksum,
                                            ![p].verified = TRUE]
                      /\ tmp' = tmp
                      /\ Goto(p, "dl_chmod")
  /\ UNCHANGED <<fn, client, procs, host, bin, sidecar, call, net, pre, last>>

\* A download that writes the sidecar as soon as the digests compared
\* equal, before the file is renamed into place.
DlChmodWritesSidecar(p) ==
  /\ pc[p] = "dl_chmod"
  /\ sidecar' = Text(Append(loc[p].expected_checksum, "\n"))
  /\ tmp' = [tmp EXCEPT ![p].x = TRUE]
  /\ Goto(p, "dl_replace")
  /\ UNCHANGED <<fn, client, procs, host, bin, call, loc, net, pre, last>>

\* download_binary: temp_path.chmod(0o755) unless platform.system() is
\* "Windows".
DlChmod(p) ==
  /\ pc[p] = "dl_chmod"
  /\ IF host.system = "Windows"
       THEN Goto(p, "dl_replace") /\ tmp' = tmp
       ELSE \E io \in {"ok", "OSError"} :
              IF io = "OSError"
                THEN Throws(p, "OSError", "chmod") /\ tmp' = tmp
                ELSE /\ tmp' = [tmp EXCEPT ![p].x = TRUE]
                     /\ Goto(p, "dl_replace")
  /\ UNCHANGED <<fn, client, procs, host, bin, sidecar, call, loc, net, pre, last>>

\* download_binary: os.replace(temp_path, binary_path)
DlReplace(p) ==
  /\ pc[p] = "dl_replace"
  /\ \E io \in {"ok", "OSError"} :
       IF io = "OSError"
         THEN Throws(p, "OSError", "replace") /\ UNCHANGED <<bin, tmp>>
         ELSE /\ bin' = tmp[p]
              /\ tmp' = [tmp EXCEPT ![p] = NoFile]
              /\ Goto(p, "dl_sidecar")
  /\ UNCHANGED <<fn, client, procs, host, sidecar, call, loc, net, pre, last>>

\* _write_checksum_sidecar: write_text(digest.strip().lower() + "\n")
SidecarText(digest) == Append(Lower(Strip(digest)), "\n")

\* A download_binary that returns without writing the sidecar.
DlSidecarSkipped(p) ==
  /\ pc[p] = "dl_sidecar"
  /\ sidecar' = sidecar
  /\ PathReturned(p)
  /\ UNCHANGED <<fn, client, procs, host, bin, tmp, call, loc, net, pre, last>>

\* download_binary: _write_checksum_sidecar(binary_path, expected_checksum),
\* then return binary_path.  write_text opens the file for writing, which
\* empties it, and then writes; either may fail.
DlSidecar(p) ==
  /\ pc[p] = "dl_sidecar"
  /\ \E io \in {"ok", "open fails", "write fails"} :
       IF io = "open fails"
         THEN Throws(p, "OSError", "write_text") /\ sidecar' = sidecar
       ELSE IF io = "write fails"
         THEN Throws(p, "OSError", "write_text") /\ sidecar' = Text(<<>>)
       ELSE /\ sidecar' = Text(SidecarText(loc[p].expected_checksum))
            /\ PathReturned(p)
  /\ UNCHANGED <<fn, client, procs, host, bin, tmp, call, loc, net, pre, last>>

\* On POSIX the binary must exist and be executable to be started.
Startable == bin.exists /\ (bin.x \/ host.system = "Windows")

ExitCodes == {0, 1, 7}

\* return result.returncode, the child having exited with status c.
ChildExited(c) == [ReturnCode(c) EXCEPT !.child = c]

\* run_binary: subprocess.run([binary_path, *args]).returncode, inside the
\* try of main.
RunChild(p) ==
  /\ pc[p] = "run_child"
  /\ \/ Ends(p, main_binary("OSError", "exec"))
     \/ /\ Startable
        /\ \/ \E c \in ExitCodes : Ends(p, ChildExited(c))
           \/ Ends(p, main_binary("KeyboardInterrupt", ""))
  /\ UNCHANGED <<fn, client, procs, host, bin, sidecar, tmp, call, loc, net, pre, last>>

\* ----------------------------------------------- revyl (package __init__)
\* revyl.ensure_binary: get_binary_path(), then the path is returned when
\* a file exists there, else download_binary() is called.
IEnsure(p) ==
  /\ pc[p] = "i_ensure"
  /\ \E io \in Mkdir :
       IF io = "OSError" THEN Throws(p, "OSError", "mkdir")
       ELSE IF ~get_platform_info(host).ok
         THEN Throws(p, "RuntimeError", get_platform_info(host).error)
       ELSE \E st \in Stat :
              IF st = "OSError" THEN Throws(p, "OSError", "stat")
              ELSE IF ~bin.exists THEN Goto(p, "i_download")
              ELSE PathReturned(p)
  /\ UNCHANGED <<fn, client, procs, host, bin, sidecar, tmp, call, loc, net, pre, last>>

\* revyl.download_binary up to urlretrieve(url, binary_path): the asset is
\* requested and written straight to the final path.  Everything from
\* urlretrieve on is inside a try whose except wraps any Exception.
IDownload(p) ==
  /\ pc[p] = "i_download"
  /\ LET info == get_platform_info(host)
         url  == _release_asset_url(_binary_name(host), call[p].version)
         mode == bin.exists /\ bin.x
     IN IF ~info.ok
          THEN Throws(p, "RuntimeError", info.error) /\ UNCHANGED <<net, bin>>
          ELSE \/ /\ "OSError" \in Mkdir
                  /\ Throws(p, "OSError", "mkdir")
                  /\ UNCHANGED <<net, bin>>
               \/ /\ net' = [net EXCEPT ![p] = Append(@, url)]
                  /\ \/ /\ Throws(p, "RuntimeError", "Failed to download binary: urlopen")
                        /\ bin' = bin
                     \/ \E d \in Payloads : \E part \in Prefixes(d) :
                          /\ bin' = File(part, mode)
                          /\ \/ Throws(p, "RuntimeError", "Failed to download binary: copy")
                             \/ Throws(p, "KeyboardInterrupt", "")
                     \/ \E d \in Payloads :
                          /\ bin' = File(d, mode)
                          /\ Goto(p, "i_chmod")
  /\ UNCHANGED <<fn, client, procs, host, sidecar, tmp, call, loc, pre, last>>

\* revyl.download_binary: binary_path.chmod(0o755) unless on Windows, then
\* return binary_path.
IChmod(p) ==
  /\ pc[p] = "i_chmod"
  /\ IF host.system = "Windows"
       THEN PathReturned(p) /\ bin' = bin
       ELSE \E io \in {"ok", "OSError"} :
              IF io = "OSError"
                THEN Throws(p, "RuntimeError", "Failed to download binary: chmod")
                     /\ bin' = bin
                ELSE /\ bin' = [bin EXCEPT !.x = TRUE]
                     /\ PathReturned(p)
  /\ UNCHANGED <<fn, client, procs, host, sidecar, tmp, call, loc, net, pre, last>>

\* revyl.main: subprocess.run(args).returncode inside the second try.
IRunChild(p) ==
  /\ pc[p] = "i_run_child"
  /\ \/ Ends(p, main_init("child", "OSError", "exec"))
     \/ /\ Startable
        /\ \/ \E c \in ExitCodes : Ends(p, ChildExited(c))
           \/ Ends(p, main_init("child", "KeyboardInterrupt", ""))
  /\ UNCHANGED <<fn, client, procs, host, bin, sidecar, tmp, call, loc, net, pre, last>>

\* ---------------------------------------------------------- specification
Next ==
  \/ \E p \in procs : Call(p)
  \/ \E p \in procs : Finish(p)
  \/ Tamper
  \/ \E p \in procs : EnsurePath(p)
  \/ \E p \in procs : GateBinary(p)
  \/ \E p \in procs : GateSidecar(p)
  \/ \E p \in procs : GateRead(p)
  \/ \E p \in procs : GateHash(p)
  \/ \E p \in procs : DlFetch(p)
  \/ \E p \in procs : DlPath(p)
  \/ \E p \in procs : DlTemp(p)
  \/ \E p \in procs : DlHash(p)
  \/ \E p \in procs : DlChmod(p)
  \/ \E p \in procs : DlReplace(p)
  \/ \E p \in procs : DlSidecar(p)
  \/ \E p \in procs : RunChild(p)
  \/ \E p \in procs : IEnsure(p)
  \/ \E p \in procs : IDownload(p)
  \/ \E p \in procs : IChmod(p)
  \/ \E p \in procs : IRunChild(p)

Spec == Init /\ [][Next]_vars

\* ---------------------------------------------- get_platform_info on its own
\* Ways platform.system() and platform.machine() spell a name.
Spellings(name) ==
  CASE name = "darwin" -> {"Darwin", "darwin", "DARWIN"}
    [] name = "linux" -> {"Linux", "linux", "LINUX"}
    [] name = "windows" -> {"Windows", "windows", "WINDOWS"}
    [] name = "x86_64" -> {"x86_64", "X86_64"}
    [] name = "amd64" -> {"AMD64", "amd64", "Amd64"}
    [] name = "arm64" -> {"arm64", "ARM64"}
    [] name = "aarch64" -> {"aarch64", "AARCH64"}
    [] OTHER -> {name}

\* Values of platform.system(); the empty string is "cannot be determined".
Systems ==
  UNION { Spellings(n) : n \in {"darwin", "linux", "windows"} }
    \cup {"SunOS", "FreeBSD", "Java", ""}

\* Values of platform.machine().
Machines ==
  UNION { Spellings(n) : n \in {"x86_64", "amd64", "arm64", "aarch64"} }
    \cup {"riscv64", "RISCV64", "i386", ""}

InitPlatform ==
  /\ procs = {1}
  /\ host \in [system : Systems, machine : Machines]
  /\ bin \in {NoFile, File(<<1, 2>>, TRUE)}
  /\ sidecar \in {NoText, Text(_sha256_file(<<1, 2>>) \o <<"\n">>)}
  /\ tmp = [p \in procs |-> NoFile]
  /\ pc = [p \in procs |-> "idle"]
  /\ call = [p \in procs |-> NoCall]
  /\ loc = [p \in procs |-> NoLocals]
  /\ net = [p \in procs |-> <<>>]
  /\ pre = [p \in procs |-> [bin |-> NoFile, sidecar |-> NoText]]
  /\ res = [p \in procs |-> NoResult]
  /\ last = NoLast
  /\ fn = NoFn
  /\ client = NoClient

\* get_platform_info() is called on the host: it reads platform.system()
\* and platform.machine() and nothing else.  io is the files and requests
\* seen when it returned or raised.
PlatformInfo ==
  /\ fn.name = ""
  /\ fn' = [name |-> "get_platform_info", arg |-> host,
            out |-> get_platform_info(host),
            io |-> <<bin, sidecar, tmp, net>>]
  /\ UNCHANGED <<pipeline, client>>

\* The caller drops the result.
PlatformForget ==
  /\ fn.name = "get_platform_info"
  /\ fn' = NoFn
  /\ UNCHANGED <<pipeline, client>>

NextPlatform == PlatformInfo \/ PlatformForget

SpecPlatform == InitPlatform /\ [][NextPlatform]_vars

\* ----------------------------------------------- _parse_checksums on its own
\* Longest manifest (in lines) given to _parse_checksums on its own.
MaxParsedLines == 3

\* A manifest line as its author meant it, with the text that says it.
EntryLine(digest, filename, text) ==
  [kind |-> "entry", digest |-> digest, filename |-> filename, text |-> text]

OtherLine(kind, text) ==
  [kind |-> kind, digest |-> <<>>, filename |-> <<>>, text |-> text]

\* Digests and file names of the manifests parsed.
DigestA == _sha256_file(<<1, 2>>)

DigestB == _sha256_file(<<2, 1>>)

AssetNames == { <<"revyl-", "linux", "-", "amd64">>, <<"revyl-", "darwin", "-", "arm64">> }

\* Lines of a checksums.txt: "<digest>  <name>" as sha256sum prints it, the
\* same in upper case with the binary-mode star between blanks, blank
\* lines, comments, a digest with no name, and an entry for a file whose
\* name holds a blank (sha256sum prints such a name as it is).
ParsedLines ==
  { EntryLine(d, n, d \o <<" ", " ">> \o n) : d \in {DigestA, DigestB}, n \in AssetNames }
    \cup { EntryLine(DigestA, n, <<" ">> \o Upper(DigestA) \o <<" ", "*">> \o n \o <<" ">>) :
             n \in {<<"revyl-", "linux", "-", "amd64">>} }
    \cup { OtherLine("blank", <<>>), OtherLine("blank", <<" ", " ">>) }
    \cup { OtherLine("comment", <<"#">> \o DigestB \o <<" ", " ">> \o n) :
             n \in {<<"revyl-", "darwin", "-", "arm64">>} }
    \cup { OtherLine("comment", <<" ", "#", " ", "sha256">>),
           OtherLine("token", DigestB) }
    \cup { EntryLine(DigestB, n \o <<" ", "notes">>, DigestB \o <<" ", " ">> \o n \o <<" ", "notes">>) :
             n \in {<<"revyl-", "linux", "-", "amd64">>} }

\* The manifest made of the lines ls, each ended by a newline.
RECURSIVE ManifestText(_)
ManifestText(ls) ==
  IF ls = <<>> THEN <<>> ELSE Head(ls).text \o <<"\n">> \o ManifestText(Tail(ls))

\* The orders in which n lines can be written.
Orders(n) == { f \in [1..n -> 1..n] : \A i, j \in 1..n : f[i] = f[j] => i = j }

InitParse ==
  /\ procs = {1}
  /\ host \in {[system |-> "Linux", machine |-> "x86_64"]}
  /\ bin = NoFile
  /\ sidecar = NoText
  /\ tmp = [p \in procs |-> NoFile]
  /\ pc = [p \in procs |-> "idle"]
  /\ call = [p \in procs |-> NoCall]
  /\ loc = [p \in procs |-> NoLocals]
  /\ net = [p \in procs |-> <<>>]
  /\ pre = [p \in procs |-> [bin |-> NoFile, sidecar |-> NoText]]
  /\ res = [p \in procs |-> NoResult]
  /\ last = NoLast
  /\ \E ls \in SeqsUpTo(ParsedLines, MaxParsedLines) : fn = [NoFn EXCEPT !.arg = ls]
  /\ client = NoClient

\* _parse_checksums(raw_checksums) on the manifest made of the lines.
Parse ==
  /\ fn.name = ""
  /\ fn' = [fn EXCEPT !.name = "_parse_checksums",
                      !.out = _parse_checksums(ManifestText(fn.arg))]
  /\ UNCHANGED <<pipeline, client>>

\* _parse_checksums is called once more, on the same lines written in some
\* order (their own order included); io keeps that order and the table.
ParseAgain ==
  /\ fn.name = "_parse_checksums"
  /\ \E order \in Orders(Len(fn.arg)) :
       LET ls == [i \in 1..Len(fn.arg) |-> fn.arg[order[i]]]
       IN fn' = [fn EXCEPT !.name = "_parse_checksums again",
                           !.io = <<ls, _parse_checksums(ManifestText(ls))>>]
  /\ UNCHANGED <<pipeline, client>>

NextParse == Parse \/ ParseAgain

SpecParse == InitParse /\ [][NextParse]_vars

\* ------------------------------------------------------ revyl.sdk: values
\* Python values the SDK handles: None, bool, int, str, list, dict.  n is
\* the number of an int or bool, s the atoms of a str, items the elements
\* of a list, map the entries of a dict.
NoMap == [k \in {} |-> 0]

PyNone == [type |-> "NoneType", n |-> 0, s |-> <<>>, items |-> <<>>, map |-> NoMap]

PyInt(n) == [PyNone EXCEPT !.type = "int", !.n = n]

PyBool(b) == [PyNone EXCEPT !.type = "bool", !.n = IF b THEN 1 ELSE 0]

PyStr(s) == [PyNone EXCEPT !.type = "str", !.s = s]

PyList(items) == [PyNone EXCEPT !.type = "list", !.items = items]

PyDict(map) == [PyNone EXCEPT !.type = "dict", !.map = map]

\* isinstance(v, int): a bool is an int in Python.
IsInstanceInt(v) == v.type \in {"int", "bool"}

\* isinstance(v, dict)
IsInstanceDict(v) == v.type = "dict"

\* a == b for the values compared by the SDK: numbers by their amount.
PyEq(a, b) ==
  IF IsInstanceInt(a) /\ IsInstanceInt(b) THEN a.n = b.n ELSE a = b

\* str(v) of a session index, a coordinate or a duration.
Str(v) ==
  CASE v.type = "bool" -> (IF v.n = 1 THEN "True" ELSE "False")
    [] v.type = "int" /\ v.n = 0 -> "0"
    [] v.type = "int" /\ v.n = 1 -> "1"
    [] v.type = "int" /\ v.n = 2 -> "2"
    [] v.type = "int" /\ v.n = 3 -> "3"
    [] v.type = "int" /\ v.n = 500 -> "500"
    [] v.type = "int" /\ v.n = 1500 -> "1500"
    [] OTHER -> "?"

\* result.get("index")
GetIndex(result) ==
  IF "index" \in DOMAIN result.map THEN result.map["index"] ELSE PyNone

\* ---------------------------------------------------- revyl.sdk: json.loads
\* JSON text is a sequence of tokens and blanks.  The scalar tokens and the
\* values json.loads gives them:
JsonString(tok) ==
  CASE tok = "\"index\"" -> <<"index">>
    [] tok = "\"id\"" -> <<"id">>
    [] tok = "\"3\"" -> <<"3">>
    [] OTHER -> <<>>

JsonStrings == {"\"index\"", "\"id\"", "\"3\""}

JsonScalars == JsonStrings \cup {"0", "3", "true", "null"}

JsonScalar(tok) ==
  CASE tok = "0" -> PyInt(0)
    [] tok = "3" -> PyInt(3)
    [] tok = "true" -> PyBool(TRUE)
    [] tok = "null" -> PyNone
    [] OTHER -> PyStr(JsonString(tok))

\* Index of the first token of t at or after i that is no blank.
RECURSIVE SkipBlanks(_, _)
SkipBlanks(t, i) ==
  IF i <= Len(t) /\ t[i] \in Whitespace THEN SkipBlanks(t, i + 1) ELSE i

JsonFail == [ok |-> FALSE, value |-> PyNone, next |-> 0]

JsonOk(v, next) == [ok |-> TRUE, value |-> v, next |-> next]

\* The decoder: a value starting at token i, the members of an object from
\* a key on, the elements of an array from an element on.
RECURSIVE JsonValue(_, _)
RECURSIVE JsonMembers(_, _, _)
RECURSIVE JsonElements(_, _, _)
JsonValue(t, i0) ==
  LET i == SkipBlanks(t, i0)
      j == SkipBlanks(t, i + 1)
  IN IF i > Len(t) THEN JsonFail
     ELSE IF t[i] \in JsonScalars THEN JsonOk(JsonScalar(t[i]), i + 1)
     ELSE IF t[i] = "{"
       THEN IF j <= Len(t) /\ t[j] = "}" THEN JsonOk(PyDict(NoMap), j + 1)
            ELSE JsonMembers(t, j, NoMap)
     ELSE IF t[i] = "["
       THEN IF j <= Len(t) /\ t[j] = "]" THEN JsonOk(PyList(<<>>), j + 1)
            ELSE JsonElements(t, j, <<>>)
     ELSE JsonFail

JsonMembers(t, i, map) ==
  LET colon == SkipBlanks(t, i + 1)
      v     == JsonValue(t, colon + 1)
      e     == SkipBlanks(t, v.next)
      key   == JsonString(t[i])[1]
      more  == [k \in DOMAIN map \cup {key} |-> IF k = key THEN v.value ELSE map[k]]
  IN IF i > Len(t) \/ t[i] \notin JsonStrings THEN JsonFail
     ELSE IF colon > Len(t) \/ t[colon] # ":" THEN JsonFail
     ELSE IF ~v.ok \/ e > Len(t) THEN JsonFail
     ELSE IF t[e] = "}" THEN JsonOk(PyDict(more), e + 1)
     ELSE IF t[e] = "," THEN JsonMembers(t, SkipBlanks(t, e + 1), more)
     ELSE JsonFail

JsonElements(t, i, items) ==
  LET v == JsonValue(t, i)
      e == SkipBlanks(t, v.next)
  IN IF ~v.ok \/ e > Len(t) THEN JsonFail
     ELSE IF t[e] = "]" THEN JsonOk(PyList(Append(items, v.value)), e + 1)
     ELSE IF t[e] = "," THEN JsonElements(t, e + 1, Append(items, v.value))
     ELSE JsonFail

\* A decoder that hands back the text when it is no JSON.
json_loads_or_text(output) ==
  LET v == JsonValue(output, 1)
  IN IF v.ok /\ SkipBlanks(output, v.next) > Len(output) THEN v
     ELSE JsonOk(PyStr(output), Len(output) + 1)

\* json.loads(output): one value and nothing after it, else JSONDecodeError
\* (ok is FALSE).
json_loads(output) ==
  LET v == JsonValue(output, 1)
  IN IF v.ok /\ SkipBlanks(output, v.next) > Len(output) THEN v ELSE JsonFail

\* ---------------------------------------------------- revyl.sdk: RevylCLI
\* What the revyl child process may print on stdout, with what it says:
\* nothing ("blank"), a JSON value ("valid") or something else ("invalid").
Stdout(text, json, value) == [text |-> text, json |-> json, value |-> value]

Stdouts ==
  { Stdout(<<>>, "blank", PyNone),
    Stdout(<<" ", "\n">>, "blank", PyNone),
    Stdout(<<"{", "}", "\n">>, "valid", PyDict(NoMap)),
    Stdout(<<"{", "\"index\"", ":", " ", "0", "}", "\n">>, "valid",
           PyDict([k \in {"index"} |-> PyInt(0)])),
    Stdout(<<" ", "{", "\"id\"", ":", "\"3\"", ",", " ", "\"index\"", ":", "3", "}">>,
           "valid",
           PyDict([k \in {"id", "index"} |-> IF k = "id" THEN PyStr(<<"3">>) ELSE PyInt(3)])),
    Stdout(<<"{", "\"index\"", ":", "\"3\"", "}">>, "valid",
           PyDict([k \in {"index"} |-> PyStr(<<"3">>)])),
    Stdout(<<"{", "\"index\"", ":", "true", "}">>, "valid",
           PyDict([k \in {"index"} |-> PyBool(TRUE)])),
    Stdout(<<"{", "\"index\"", ":", "null", "}">>, "valid",
           PyDict([k \in {"index"} |-> PyNone])),
    Stdout(<<"[", "{", "\"index\"", ":", "3", "}", "]", "\n">>, "valid",
           PyList(<<PyDict([k \in {"index"} |-> PyInt(3)])>>)),
    Stdout(<<"3", "\n">>, "valid", PyInt(3)),
    Stdout(<<"Started", " ", "session", " ", "3", "\n">>, "invalid", PyNone),
    Stdout(<<"{", "\"index\"", ":", "3">>, "invalid", PyNone),
    Stdout(<<"{", "\"index\"", ":", "3", "}", " ", "ready">>, "invalid", PyNone) }

\* Exit statuses of the child.
ReturnCodes == {0, 1}

\* subprocess.run(...): the child's exit status and its captured stdout.
Completed == [returncode : ReturnCodes, stdout : Stdouts]

NoCompleted == [returncode |-> -1, stdout |-> Stdout(<<>>, "", PyNone)]

\* What a call of the SDK gives its caller: a value, or an exception.
NoOutcome == [kind |-> "", exc |-> "", msg |-> "", value |-> PyNone]

Returns(v) == [NoOutcome EXCEPT !.kind = "return", !.value = v]

Raises(exc, msg) == [NoOutcome EXCEPT !.kind = "raise", !.exc = exc, !.msg = msg]

\* cmd = [self.binary_path, *args], plus "--json" when asked.
Cmd(args, json_output) ==
  <<"revyl">> \o args \o (IF json_output THEN <<"--json">> ELSE <<>>)

\* RevylCLI.run, the child having completed as `result`.
run(result, json_output) ==
  LET output == Strip(result.stdout.text)
      value  == json_loads(output)
  IN IF result.returncode # 0 THEN Raises("RevylError", "Command failed")
     ELSE IF ~json_output THEN Returns(PyStr(output))
     ELSE IF output = <<>> THEN Returns(PyDict(NoMap))
     ELSE IF value.ok THEN Returns(value.value)
     ELSE Raises("RevylError", "Command returned non-JSON output")

\* ------------------------------------------------ revyl.sdk: DeviceClient
\* The selector arguments of a call: target, x and y.
Selector(target, x, y) == [target |-> target, x |-> x, y |-> y]

\* session_index: the tracked session; method, explicit: the last method
\* called and the session_index argument it got; selector: the target, x
\* and y it got, when it takes them; before: the tracked
\* session when it was called; cmd, json_output, completed, ran: the child
\* it ran and what RevylCLI.run made of it; ret: how the method ended.
\* DeviceClient(cli, session_index) makes one.
NewClient(session_index) ==
  [session_index |-> session_index, method |-> "",
   explicit |-> PyNone, selector |-> Selector(PyNone, PyNone, PyNone),
   before |-> PyNone, cmd |-> <<>>, json_output |-> FALSE,
   completed |-> NoCompleted, ran |-> NoOutcome, ret |-> NoOutcome]

\* Session indexes callers pass.
Indexes == {PyInt(0), PyInt(3)}

\* DeviceClient._session_args
_session_args(tracked, session_index) ==
  LET idx == IF session_index = PyNone THEN tracked ELSE session_index
  IN IF idx = PyNone THEN <<>> ELSE <<"-s", Str(idx)>>

\* A method of the client is called with session_index `explicit` and runs
\* the child with args; the child completes as `result`.
Invoked(method, explicit, args, json_output, result) ==
  [client EXCEPT !.method = method, !.explicit = explicit,
                 !.before = client.session_index,
                 !.cmd = Cmd(args, json_output), !.json_output = json_output,
                 !.completed = result, !.ran = run(result, json_output)]

\* return result if isinstance(result, dict) else {}; an exception of
\* RevylCLI.run passes through.
DictOrEmpty(ran) ==
  IF ran.kind = "raise" THEN ran
  ELSE IF IsInstanceDict(ran.value) THEN ran
  ELSE Returns(PyDict(NoMap))

\* The client is between calls: its caller has the last result.
Ready == client.method = ""

\* The caller takes the result of the call; the client keeps its session.
Returned ==
  /\ ~Ready
  /\ client' = NewClient(client.session_index)
  /\ UNCHANGED <<pipeline, fn>>

\* The tracked session after start_session got `ran` from RevylCLI.run.
StartTracks(tracked, ran) ==
  IF ran.kind = "return" /\ IsInstanceDict(ran.value)
       /\ IsInstanceInt(GetIndex(ran.value))
    THEN GetIndex(ran.value)
    ELSE tracked

\* DeviceClient.start_session(platform, timeout, open_viewer, app_id); the
\* options build_version_id, app_url and app_link are appended as app_id is.
StartSession ==
  /\ Ready
  /\ \E platform \in {"ios", "android"}, timeout \in {PyNone, PyInt(0)},
        open_viewer \in BOOLEAN, app_id \in {"", "app-1"}, result \in Completed :
       LET args == <<"device", "start", "--platform", platform>>
                     \o (IF timeout # PyNone THEN <<"--timeout", Str(timeout)>> ELSE <<>>)
                     \o (IF open_viewer THEN <<"--open">> ELSE <<>>)
                     \o (IF app_id # "" THEN <<"--app-id", app_id>> ELSE <<>>)
           c    == Invoked("start_session", PyNone, args, TRUE, result)
       IN client' = [c EXCEPT !.session_index = StartTracks(client.session_index, c.ran),
                              !.ret = DictOrEmpty(c.ran)]
  /\ UNCHANGED <<pipeline, fn>>

\* DeviceClient.stop_session(session_index): args are built and the child
\* run; if that raised nothing, the tracked session is forgotten when it is
\* the one stopped.
StopSession ==
  /\ Ready
  /\ \E session_index \in {PyNone} \cup Indexes, result \in Completed :
       LET args == <<"device", "stop">> \o _session_args(client.session_index, session_index)
           c    == Invoked("stop_session", session_index, args, TRUE, result)
           idx  == IF session_index = PyNone THEN client.session_index ELSE session_index
       IN client' = [c EXCEPT !.session_index =
                                 IF c.ran.kind = "return" /\ idx # PyNone
                                      /\ PyEq(idx, client.session_index)
                                   THEN PyNone ELSE client.session_index,
                              !.ret = DictOrEmpty(c.ran)]
  /\ UNCHANGED <<pipeline, fn>>

\* DeviceClient.stop_all(): the tracked session is forgotten, then the
\* child is run.
StopAll ==
  /\ Ready
  /\ \E result \in Completed :
       LET c == Invoked("stop_all", PyNone, <<"device", "stop", "--all">>, TRUE, result)
       IN client' = [c EXCEPT !.session_index = PyNone, !.ret = DictOrEmpty(c.ran)]
  /\ UNCHANGED <<pipeline, fn>>

\* DeviceClient.use_session(index): the child is run without --json; if
\* that raised nothing, index is tracked and the output returned.
UseSession ==
  /\ Ready
  /\ \E index \in Indexes, result \in Completed :
       LET c == Invoked("use_session", PyNone, <<"device", "use", Str(index)>>, FALSE, result)
       IN client' = [c EXCEPT !.session_index =
                                 IF c.ran.kind = "return" THEN index ELSE client.session_index,
                              !.ret = c.ran]
  /\ UNCHANGED <<pipeline, fn>>

\* DeviceClient.info(session_index) and DeviceClient.doctor(session_index)
Info ==
  /\ Ready
  /\ \E method \in {"info", "doctor"}, session_index \in {PyNone} \cup Indexes,
        result \in Completed :
       LET args == <<"device", method>> \o _session_args(client.session_index, session_index)
           c    == Invoked(method, session_index, args, method = "info", result)
       IN client' = [c EXCEPT !.ret = IF method = "info" THEN DictOrEmpty(c.ran) ELSE c.ran]
  /\ UNCHANGED <<pipeline, fn>>

\* Texts and coordinates callers pass; None is PyNone, "" the empty target.
Targets == {PyNone, PyStr(<<>>), PyStr(<<"Sign In">>)}

Coordinates == {PyNone, PyInt(0), PyInt(3)}

\* A selector check that lets a target through beside coordinates.
TargetFirst(target, x, y) ==
  LET given == target.type = "str" /\ target.s # <<>>
  IN IF given
       THEN [ok |-> TRUE, args |-> <<"--target", target.s[1]>>, msg |-> ""]
     ELSE IF x = PyNone \/ y = PyNone
       THEN [ok |-> FALSE, args |-> <<>>,
             msg |-> "Provide target or both x and y coordinates."]
     ELSE [ok |-> TRUE, args |-> <<"--x", Str(x), "--y", Str(y)>>, msg |-> ""]

\* DeviceClient._target_or_coords_args: the arguments, or the ValueError.
_target_or_coords_args(target, x, y) ==
  LET given == target.type = "str" /\ target.s # <<>>
  IN IF given /\ (x # PyNone \/ y # PyNone)
       THEN [ok |-> FALSE, args |-> <<>>, msg |-> "Provide target OR x/y, not both."]
     ELSE IF given
       THEN [ok |-> TRUE, args |-> <<"--target", target.s[1]>>, msg |-> ""]
     ELSE IF x = PyNone \/ y = PyNone
       THEN [ok |-> FALSE, args |-> <<>>,
             msg |-> "Provide target or both x and y coordinates."]
     ELSE [ok |-> TRUE, args |-> <<"--x", Str(x), "--y", Str(y)>>, msg |-> ""]

\* A wrapper that takes a selector builds ["device", <method>, *selector
\* arguments, *flags, *session arguments] and runs it; the ValueError of
\* _target_or_coords_args leaves the wrapper before anything is run.
Selected(method, target, x, y, flags, session_index, result) ==
  LET sel  == _target_or_coords_args(target, x, y)
      args == <<"device", method>> \o sel.args \o flags
                \o _session_args(client.session_index, session_index)
      c    == Invoked(method, session_index, args, TRUE, result)
  IN IF sel.ok
       THEN [c EXCEPT !.selector = Selector(target, x, y),
                      !.ret = DictOrEmpty(c.ran)]
       ELSE [client EXCEPT !.method = method, !.explicit = session_index,
                           !.selector = Selector(target, x, y),
                           !.before = client.session_index,
                           !.cmd = <<>>, !.json_output = FALSE,
                           !.completed = NoCompleted, !.ran = NoOutcome,
                           !.ret = Raises("ValueError", sel.msg)]

\* DeviceClient.tap(target, x, y, session_index); double_tap differs in the
\* command word only.
Tap ==
  /\ Ready
  /\ \E method \in {"tap", "double-tap"}, target \in Targets, x \in Coordinates,
        y \in Coordinates, session_index \in {PyNone} \cup Indexes, result \in Completed :
       client' = Selected(method, target, x, y, <<>>, session_index, result)
  /\ UNCHANGED <<pipeline, fn>>

\* DeviceClient.long_press(target, x, y, duration_ms, session_index), with
\* the default duration.
LongPress ==
  /\ Ready
  /\ \E target \in Targets, x \in Coordinates, y \in Coordinates,
        session_index \in {PyNone} \cup Indexes, result \in Completed :
       client' = Selected("long-press", target, x, y,
                          <<"--duration", Str(PyInt(1500))>>, session_index, result)
  /\ UNCHANGED <<pipeline, fn>>

\* DeviceClient.type_text(text, target, x, y, clear_first, session_index)
TypeText ==
  /\ Ready
  /\ \E target \in Targets, x \in Coordinates, y \in Coordinates,
        clear_first \in BOOLEAN, session_index \in {PyNone} \cup Indexes,
        result \in Completed :
       client' = Selected("type", target, x, y,
                          <<"--text", "hello",
                            IF clear_first THEN "--clear-first=true"
                                           ELSE "--clear-first=false">>,
                          session_index, result)
  /\ UNCHANGED <<pipeline, fn>>

\* DeviceClient.swipe(direction, target, x, y, duration_ms, session_index),
\* with the default duration.
Swipe ==
  /\ Ready
  /\ \E direction \in {"up", "left"}, target \in Targets, x \in Coordinates,
        y \in Coordinates, session_index \in {PyNone} \cup Indexes,
        result \in Completed :
       client' = Selected("swipe", target, x, y,
                          <<"--direction", direction, "--duration", Str(PyInt(500))>>,
                          session_index, result)
  /\ UNCHANGED <<pipeline, fn>>

\* DeviceClient.close(): nothing when no session is tracked, else
\* stop_session() with its RevylError swallowed.
Close ==
  /\ Ready
  /\ IF client.session_index = PyNone
       THEN client' = [client EXCEPT !.method = "close", !.explicit = PyNone,
                                     !.before = client.session_index,
                                     !.cmd = <<>>, !.json_output = FALSE,
                                     !.completed = NoCompleted, !.ran = NoOutcome,
                                     !.ret = Returns(PyNone)]
       ELSE \E result \in Completed :
              LET args == <<"device", "stop">> \o _session_args(client.session_index, PyNone)
                  c    == Invoked("close", PyNone, args, TRUE, result)
              IN client' = [c EXCEPT !.session_index =
                                        IF c.ran.kind = "return" THEN PyNone
                                        ELSE client.session_index,
                                     !.ret = Returns(PyNone)]
  /\ UNCHANGED <<pipeline, fn>>

InitSdk ==
  /\ procs = {1}
  /\ host \in {[system |-> "Linux", machine |-> "x86_64"]}
  /\ bin = File(<<1, 2>>, TRUE)
  /\ sidecar = Text(_sha256_file(<<1, 2>>) \o <<"\n">>)
  /\ tmp = [p \in procs |-> NoFile]
  /\ pc = [p \in procs |-> "idle"]
  /\ call = [p \in procs |-> NoCall]
  /\ loc = [p \in procs |-> NoLocals]
  /\ net = [p \in procs |-> <<>>]
  /\ pre = [p \in procs |-> [bin |-> NoFile, sidecar |-> NoText]]
  /\ res = [p \in procs |-> NoResult]
  /\ last = NoLast
  /\ fn = NoFn
  /\ \E session_index \in {PyNone} \cup Indexes : client = NewClient(session_index)

NextSdk ==
  \/ StartSession
  \/ StopSession
  \/ StopAll
  \/ UseSession
  \/ Info
  \/ Tap
  \/ LongPress
  \/ TypeText
  \/ Swipe
  \/ Close
  \/ Returned

SpecSdk == InitSdk /\ [][NextSdk]_vars

\* -------------------------------------- processes sharing the artifact path
\* Two processes of one user on one host, started with nothing in place or
\* with an older artifact.
InitShared ==
  /\ procs = {1, 2}
  /\ host \in {[system |-> "Linux", machine |-> "x86_64"]}
  /\ \E present \in BOOLEAN :
        /\ bin = IF present THEN File(<<1, 2>>, TRUE) ELSE NoFile
        /\ sidecar = IF present THEN Text(_sha256_file(<<1, 2>>) \o <<"\n">>)
                                ELSE NoText
  /\ tmp = [p \in procs |-> NoFile]
  /\ pc = [p \in procs |-> "idle"]
  /\ call = [p \in procs |-> NoCall]
  /\ loc = [p \in procs |-> NoLocals]
  /\ net = [p \in procs |-> <<>>]
  /\ pre = [p \in procs |-> [bin |-> NoFile, sidecar |-> NoText]]
  /\ res = [p \in procs |-> NoResult]
  /\ last = NoLast
  /\ fn = NoFn
  /\ client = NoClient

\* A process calls revyl._binary.download_binary() or ensure_binary(); each
\* process is followed through one call.  What the files were at the call
\* is not kept: the other process may change them at any time.
CallShared(p) ==
  /\ Idle(p)
  /\ \E e \in {"download_binary", "ensure_binary"} :
       /\ call' = [call EXCEPT ![p] = [module |-> "_binary", entry |-> e,
                                       version |-> "latest"]]
       /\ pc' = [pc EXCEPT ![p] = IF e = "download_binary" THEN "dl_fetch"
                                  ELSE "ensure_path"]
  /\ UNCHANGED <<fn, client, procs, host, bin, sidecar, tmp, loc, net, pre, res, last>>

NextShared ==
  \/ \E p \in procs : CallShared(p)
  \/ \E p \in procs : EnsurePath(p)
  \/ \E p \in procs : GateBinary(p)
  \/ \E p \in procs : GateSidecar(p)
  \/ \E p \in procs : GateRead(p)
  \/ \E p \in procs : GateHash(p)
  \/ \E p \in procs : DlFetch(p)
  \/ \E p \in procs : DlPath(p)
  \/ \E p \in procs : DlTemp(p)
  \/ \E p \in procs : DlHash(p)
  \/ \E p \in procs : DlChmod(p)
  \/ \E p \in procs : DlReplace(p)
  \/ \E p \in procs : DlSidecar(p)

SpecShared == InitShared /\ [][NextShared]_vars

\* ------------------------------------------------------------- properties
Done(p) == pc[p] = "done"

\* p is in, or has just ended, a call of entry point e of module m.
Calls(p, m, e) == call[p].module = m /\ call[p].entry = e

\* The sidecar's text holds digest d: trimmed of blanks and compared without
\* regard to letter case.
HoldsDigest(text, d) == Lower(Strip(text)) # <<>> /\ Lower(Strip(text)) = Lower(d)

\* Binary b and sidecar s both exist and s holds the SHA-256 of b.
Trusted(b, s) == b.exists /\ s.exists /\ HoldsDigest(s.text, _sha256_file(b.data))

\* The artifact files are what they were when p's call started.
Untouched(p) == bin = pre[p].bin /\ sidecar = pre[p].sidecar

\* C1: when download_binary returns, the manifest listed the asset with the
\* SHA-256 of the downloaded bytes, the path is returned, the binary holds
\* exactly those bytes, the sidecar holds that digest, and the artifact is
\* trusted.
C1_VerifiedDownload ==
  \A p \in procs :
    (Done(p) /\ Calls(p, "_binary", "download_binary") /\ res[p].kind = "return")
      => /\ res[p].path
         /\ loc[p].manifest = "listed"
         /\ loc[p].downloaded \in Payloads
         /\ loc[p].expected_checksum = _sha256_file(loc[p].downloaded)
         /\ bin.exists /\ bin.data = loc[p].downloaded
         /\ sidecar = Text(_sha256_file(loc[p].downloaded) \o <<"\n">>)
         /\ Trusted(bin, sidecar)

\* A download whose manifest gave the digest in upper case returned, over an
\* older, different binary.
C1_Witness ==
  \E p \in procs :
    /\ Done(p) /\ Calls(p, "_binary", "download_binary") /\ res[p].kind = "return"
    /\ loc[p].downloaded = <<2, 1>>
    /\ pre[p].bin.exists /\ pre[p].bin.data # bin.data

\* p's download_binary hashed the whole asset and the digest differs from
\* the manifest's.
Mismatched(p) ==
  /\ call[p].module = "_binary" /\ call[p].entry \in {"download_binary", "ensure_binary"}
  /\ loc[p].downloaded \in Payloads
  /\ loc[p].actual_checksum = _sha256_file(loc[p].downloaded)
  /\ loc[p].manifest = "listed"
  /\ loc[p].actual_checksum # loc[p].expected_checksum

C3_MissingEntryNoDownload ==
  \A p \in procs :
    (Done(p) /\ call[p].module = "_binary" /\ call[p].entry # "main"
       /\ loc[p].manifest = "unlisted")
      => /\ res[p].kind = "raise"
         /\ net[p] = << _release_asset_url(ChecksumsTxt, call[p].version) >>
         /\ ~tmp[p].exists
         /\ loc[p].downloaded = <<>>
         /\ Untouched(p)

\* A download of a pinned version found no entry, a binary being in place.
C3_Witness ==
  \E p \in procs :
    /\ Done(p) /\ Calls(p, "_binary", "download_binary")
    /\ call[p].version # "latest"
    /\ loc[p].manifest = "unlisted"
    /\ pre[p].bin.exists

\* _is_verified_binary ran to its return in p's call and no I/O error hit it.
Checked(p) == loc[p].gate # "" /\ ~loc[p].io_error

\* C4: with binary and sidecar in place and the sidecar holding the binary's
\* digest, ensure_binary returns the path, requests nothing and leaves both
\* files alone.
C4_TrustedIsReused ==
  \A p \in procs :
    (Done(p) /\ Calls(p, "_binary", "ensure_binary") /\ Checked(p)
       /\ Trusted(pre[p].bin, pre[p].sidecar))
      => /\ res[p].kind = "return" /\ res[p].path
         /\ net[p] = <<>>
         /\ Untouched(p)

\* ensure_binary reused a binary whose sidecar spells the digest in upper
\* case between blanks.
C4_Witness ==
  \E p \in procs :
    /\ Done(p) /\ Calls(p, "_binary", "ensure_binary") /\ Checked(p)
    /\ Trusted(pre[p].bin, pre[p].sidecar)
    /\ pre[p].sidecar.text # _sha256_file(pre[p].bin.data) \o <<"\n">>
    /\ res[p].kind = "return"

\* Every request of p's call is for the latest release.
OnlyLatest(p) == \A i \in DOMAIN net[p] : net[p][i][2] = "latest"

\* C5: when the integrity check reports untrusted, ensure_binary runs
\* download_binary for the latest release; when that returns, the binary
\* holds the downloaded bytes, the sidecar their digest, and the path is
\* returned.
C5_UntrustedIsDownloaded ==
  \A p \in procs :
    (Done(p) /\ Calls(p, "_binary", "ensure_binary"))
      => /\ (loc[p].gate # "" /\ ~Trusted(pre[p].bin, pre[p].sidecar))
              => loc[p].gate = "untrusted"
         /\ loc[p].gate = "untrusted"
              => /\ net[p] # <<>>
                 /\ net[p][1] = _release_asset_url(ChecksumsTxt, "latest")
                 /\ OnlyLatest(p)
                 /\ res[p].kind = "return"
                      => /\ res[p].path
                         /\ loc[p].verified
                         /\ loc[p].downloaded \in Payloads
                         /\ bin.exists /\ bin.data = loc[p].downloaded
                         /\ sidecar = Text(_sha256_file(loc[p].downloaded) \o <<"\n">>)

\* ensure_binary replaced a binary that had no sidecar.
C5_Witness ==
  \E p \in procs :
    /\ Done(p) /\ Calls(p, "_binary", "ensure_binary")
    /\ pre[p].bin.exists /\ ~pre[p].sidecar.exists
    /\ loc[p].gate = "untrusted"
    /\ res[p].kind = "return"
    /\ bin.data # pre[p].bin.data

\* p's call is an ensure_binary that directly follows another one, with
\* nobody touching the artifact files in between.
SecondEnsure(p) == Done(p) /\ Calls(p, "_binary", "ensure_binary") /\ last.seen

C7_FailureLeavesArtifact ==
  \A p \in procs :
    (Done(p) /\ Calls(p, "_binary", "download_binary") /\ res[p].kind = "raise")
      => Untouched(p)

\* C8: an ensure_binary of either module that returns the path of a binary
\* which was in place without a matching sidecar has replaced it by a
\* verified download.
C8_NeverReturnsUnverified ==
  \A p \in procs :
    (Done(p) /\ call[p].entry = "ensure_binary" /\ res[p].kind = "return"
       /\ pre[p].bin.exists /\ ~Trusted(pre[p].bin, pre[p].sidecar))
      => /\ loc[p].verified
         /\ bin.data = loc[p].downloaded
         /\ Trusted(bin, sidecar)

C10_MainExitStatus ==
  \A p \in procs :
    (Done(p) /\ call[p].entry = "main")
      => /\ res[p].kind = "return"
         /\ res[p].exc = "" => (res[p].child \in ExitCodes /\ res[p].code = res[p].child)
         /\ res[p].exc = "KeyboardInterrupt" => res[p].code = 130
         /\ res[p].exc \in {"RuntimeError", "OSError"}
              => (res[p].code = 1 /\ res[p].stderr # "" /\ res[p].pointer)

\* The names among `names` that s spells, letter case aside.
Spelt(names, s) == { n \in names : s \in Spellings(n) }

\* C11: for a system among darwin, linux, windows and a machine among
\* x86_64, amd64, arm64, aarch64, in any letter case, get_platform_info
\* returns the system, amd64 for x86_64/amd64 and arm64 for arm64/aarch64,
\* and ".exe" exactly for windows; any other system gives the
\* unsupported-platform error, a supported system with any other machine the
\* unsupported-architecture error; files and network are as they were.
C11_PlatformTable ==
  fn.name = "get_platform_info" =>
    LET system  == Spelt({"darwin", "linux", "windows"}, fn.arg.system)
        machine == Spelt({"x86_64", "amd64", "arm64", "aarch64"}, fn.arg.machine)
        info    == fn.out
    IN /\ system = {} => (~info.ok /\ info.error = "Unsupported platform")
       /\ (system # {} /\ machine = {})
            => (~info.ok /\ info.error = "Unsupported architecture")
       /\ (system # {} /\ machine # {})
            => /\ info.ok
               /\ system = {info.platform_str}
               /\ info.arch_str = (IF machine \subseteq {"x86_64", "amd64"}
                                     THEN "amd64" ELSE "arm64")
               /\ info.ext = ".exe" <=> system = {"windows"}
               /\ info.ext \in {"", ".exe"}
       /\ fn.io = <<bin, sidecar, tmp, net>>
       /\ fn.io[4] = [p \in procs |-> <<>>]

\* The function resolved an upper-case Windows host with an aliased machine.
C11_Witness ==
  /\ fn.name = "get_platform_info"
  /\ fn.arg = [system |-> "WINDOWS", machine |-> "AARCH64"]
  /\ fn.out.ok /\ fn.out.arch_str = "arm64" /\ fn.out.ext = ".exe"

\* The places of the entry lines of ls that name file n.
EntriesFor(ls, n) == { i \in 1..Len(ls) : ls[i].kind = "entry" /\ ls[i].filename = n }

\* The largest element of a non-empty set of numbers.
Largest(S) == CHOOSE i \in S : \A j \in S : j <= i

\* The table the lines ls stand for: each file named by an entry line, with
\* the lower-case digest of the last line naming it.
TableOf(ls) ==
  [n \in { ls[i].filename : i \in { j \in 1..Len(ls) : ls[j].kind = "entry" } }
     |-> ls[Largest(EntriesFor(ls, n))].digest]

\* No two entry lines of ls name the same file.
DistinctNames(ls) ==
  \A i \in 1..Len(ls) :
    ls[i].kind = "entry" => Cardinality(EntriesFor(ls, ls[i].filename)) <= 1

\* C12: _parse_checksums makes no entry of a blank line or of a line that
\* starts with "#", maps each file name to the lower-cased digest of the last
\* line naming it, gives the same table when the same text is parsed again,
\* and, when no two lines name the same file, gives the same table for
\* every order of the lines.
C12_ParsedTable ==
  /\ fn.name \in {"_parse_checksums", "_parse_checksums again"}
       => fn.out = TableOf(fn.arg)
  /\ fn.name = "_parse_checksums again"
       => /\ fn.io[1] = fn.arg => fn.io[2] = fn.out
          /\ DistinctNames(fn.arg) => fn.io[2] = fn.out

\* Three lines were parsed in another order: a comment naming one file and
\* two entries for the other, the later one in upper case with a star.
C12_Witness ==
  /\ fn.name = "_parse_checksums again"
  /\ Len(fn.arg) = 3
  /\ fn.arg[1].kind = "comment" /\ fn.arg[1].text[1] = "#"
  /\ fn.arg[2].kind = "entry" /\ fn.arg[2].digest = DigestB
  /\ fn.arg[3].kind = "entry" /\ fn.arg[3].digest = DigestA
  /\ fn.arg[3].filename = fn.arg[2].filename
  /\ fn.arg[3].text # fn.arg[3].digest \o <<" ", " ">> \o fn.arg[3].filename
  /\ fn.io[1] # fn.arg
  /\ fn.io[2] # fn.out
  /\ DOMAIN fn.out = {fn.arg[3].filename}

\* The last call of the client ran a child process.
RanChild == client.cmd # <<>>

\* C13: RevylCLI.run raises RevylError whenever the child exits nonzero; on
\* exit status zero with JSON asked for it returns an empty dict when stdout
\* is empty or blank, the decoded value when stdout is valid JSON, and
\* raises RevylError when stdout is anything else.
C13_RunOutcome ==
  RanChild =>
    LET result == client.completed
        ran    == client.ran
    IN /\ result.returncode # 0 => (ran.kind = "raise" /\ ran.exc = "RevylError")
       /\ (result.returncode = 0 /\ client.json_output)
            => /\ result.stdout.json = "blank" => ran = Returns(PyDict(NoMap))
               /\ result.stdout.json = "valid" => ran = Returns(result.stdout.value)
               /\ result.stdout.json = "invalid"
                    => (ran.kind = "raise" /\ ran.exc = "RevylError")

\* The child exited with status zero having printed a JSON object followed
\* by a word, JSON being asked for: RevylCLI.run raised.
C13_Witness ==
  /\ RanChild
  /\ client.json_output
  /\ client.completed.returncode = 0
  /\ client.completed.stdout.json = "invalid"
  /\ client.completed.stdout.text[1] = "{"
  /\ client.ran.kind = "raise"

\* The JSON value v is an integer.
IsInteger(v) == v.type = "int"

\* The last call was a start_session that succeeded with a dict-shaped
\* result whose "index" is an integer.
StartedWithIndex ==
  /\ client.ran.kind = "return"
  /\ client.ran.value.type = "dict"
  /\ "index" \in DOMAIN client.ran.value.map
  /\ IsInteger(client.ran.value.map["index"])

\* The places of "-s" in the command line of the last call.
SelectorAt == { i \in 1..Len(client.cmd) : client.cmd[i] = "-s" }

\* The last call passed "-s <idx>", once.
Selects(idx) ==
  \E i \in SelectorAt :
    /\ SelectorAt = {i}
    /\ i < Len(client.cmd)
    /\ client.cmd[i + 1] = Str(idx)

\* C14, start_session: the tracked session is the result's index when the
\* command succeeded with a dict whose index is an integer, and is what it
\* was before otherwise.
C14_StartTracksIndex ==
  client.method = "start_session"
    => IF StartedWithIndex
         THEN client.session_index = client.ran.value.map["index"]
         ELSE client.session_index = client.before

\* C14, later commands: a command that takes a session passes "-s" with the
\* explicit session_index when one is given, else with the tracked session
\* (0 included), and no "-s" when neither is there.
C14_SelectorPassed ==
  (RanChild /\ client.method \in {"info", "doctor", "tap", "double-tap", "stop_session"})
    => LET idx == IF client.explicit # PyNone THEN client.explicit ELSE client.before
       IN IF idx = PyNone THEN SelectorAt = {} ELSE Selects(idx)

\* C14: both parts.
C14_TrackedSession == C14_StartTracksIndex /\ C14_SelectorPassed

\* C15: at every step of a download_binary that started over a trusted
\* artifact, and after it ended in any way, the binary and the sidecar are
\* both what they were, or are both new: the binary holds the verified
\* bytes and the sidecar their digest.
C15_PairOldOrNew ==
  \A p \in procs :
    (Calls(p, "_binary", "download_binary") /\ Trusted(pre[p].bin, pre[p].sidecar))
      => \/ Untouched(p)
         \/ /\ loc[p].verified
            /\ bin.exists /\ bin.data = loc[p].downloaded
            /\ Trusted(bin, sidecar)

\* C16: whenever the file at the final path changes, some process is at its
\* os.replace with a complete temporary file whose digest equalled the
\* manifest's, and that file is what the path holds afterwards; what is at
\* the path is never a part of a payload.
C16_PromotedWhole ==
  [][ /\ bin' # bin
        => \E p \in procs :
             /\ pc[p] = "dl_replace"
             /\ loc[p].verified
             /\ tmp[p].exists
             /\ tmp[p].data \in Payloads
             /\ _sha256_file(tmp[p].data) = loc[p].expected_checksum
             /\ bin' = tmp[p]
      /\ bin'.exists => bin'.data \in Payloads ]_vars

\* Two processes have both promoted a verified download, of different
\* payloads, and neither has written its sidecar yet.
C16_Witness ==
  \E p, q \in procs :
    /\ p # q
    /\ pc[p] = "dl_sidecar" /\ pc[q] = "dl_sidecar"
    /\ loc[p].downloaded # loc[q].downloaded
    /\ bin.data = loc[q].downloaded

\* C17: a step of the package changes the sidecar only in download_binary
\* of revyl._binary, at its sidecar write, after the temporary file's digest
\* equalled the manifest's and the file was renamed into the final path, and
\* the text written is that digest and a newline; a write that fails leaves
\* the sidecar empty and the call raises.
C17_SidecarAfterPromotion ==
  [][ (sidecar' # sidecar /\ \E p \in procs : ~Idle(p))
        => \E p \in procs :
             /\ call[p].module = "_binary"
             /\ pc[p] = "dl_sidecar"
             /\ loc[p].verified
             /\ loc[p].actual_checksum = loc[p].expected_checksum
             /\ ~tmp[p].exists
             /\ bin.exists /\ bin.data = loc[p].downloaded
             /\ _sha256_file(bin.data) = loc[p].expected_checksum
             /\ \/ sidecar' = Text(_sha256_file(bin.data) \o <<"\n">>)
                \/ sidecar' = Text(<<>>) /\ res'[p].exc = "OSError" ]_vars

\* A download returned having replaced an older sidecar that held another
\* digest.
C17_Witness ==
  \E p \in procs :
    /\ Done(p) /\ Calls(p, "_binary", "download_binary") /\ res[p].kind = "return"
    /\ pre[p].sidecar.exists /\ Strip(pre[p].sidecar.text) # <<>>
    /\ ~HoldsDigest(pre[p].sidecar.text, _sha256_file(bin.data))
    /\ HoldsDigest(sidecar.text, _sha256_file(bin.data))

\* p's download_binary requested the asset and ended before the digests
\* had compared equal: the download or the hashing failed, or the digests
\* differ.
EndedInDownload(p) ==
  /\ Done(p) /\ call[p].module = "_binary"
  /\ Len(net[p]) = 2
  /\ ~loc[p].verified

\* C18: when the asset download or the hashing of the temporary file raises
\* an exception, a broken stream included, download_binary raises its
\* download failure and the temporary file is gone.
C18_FailedDownloadCleansUp ==
  \A p \in procs :
    (EndedInDownload(p) /\ Calls(p, "_binary", "download_binary")
       /\ res[p].exc # "KeyboardInterrupt")
      => /\ res[p].kind = "raise" /\ res[p].exc = "RuntimeError"
         /\ ~tmp[p].exists

\* C19: when a user interrupt arrives while download_binary downloads or
\* hashes, no temporary file remains after the call and the artifact files
\* are what they were.
C19_InterruptCleansUp ==
  \A p \in procs :
    (EndedInDownload(p) /\ res[p].exc = "KeyboardInterrupt")
      => /\ ~tmp[p].exists
         /\ Untouched(p)

\* C20: when chmod, the rename or the sidecar write fails after the digests
\* compared equal, and on every other way download_binary ends from there,
\* no temporary file remains.
C20_NoOrphanAfterVerification ==
  \A p \in procs :
    (Done(p) /\ call[p].module = "_binary" /\ loc[p].verified)
      => ~tmp[p].exists

\* C21: _is_verified_binary never raises.  Once an I/O error has hit the
\* check in p's call, whether at the existence test of the binary or of the
\* sidecar, at the read of the sidecar or at the hashing of the binary, the
\* check has returned False, and ensure_binary has gone on to
\* download_binary: the call is past the check and, if it has ended, it
\* ended in the download and not with the error of the check.
C21_CheckNeverRaises ==
  \A p \in procs :
    (call[p].module = "_binary" /\ loc[p].io_error)
      => /\ loc[p].gate = "untrusted"
         /\ pc[p] \notin {"gate_binary", "gate_sidecar", "gate_read", "gate_hash"}
         /\ Done(p) => ~(res[p].exc = "OSError" /\ res[p].msg = "stat")

\* The blank-delimited tokens of a text, in order.
RECURSIVE Tokens(_)
Tokens(text) ==
  LET s == LStrip(text)
      k == FirstBlank(s, 1)
  IN IF s = <<>> THEN <<>>
     ELSE <<SubSeq(s, 1, k - 1)>> \o Tokens(SubSeq(s, k, Len(s)))

\* A line that is neither blank nor a comment and is not made of exactly
\* two tokens.
Malformed(l) ==
  /\ Strip(l.text) # <<>>
  /\ Head(Strip(l.text)) # "#"
  /\ Len(Tokens(l.text)) # 2

\* The lines of ls that are not malformed, in order.
RECURSIVE WellFormed(_)
WellFormed(ls) ==
  IF ls = <<>> THEN <<>>
  ELSE IF Malformed(Head(ls)) THEN WellFormed(Tail(ls))
  ELSE <<Head(ls)>> \o WellFormed(Tail(ls))

\* C22: every line that is not blank, not a comment and not made of exactly
\* two tokens (one token, or three or more) is skipped: the table
\* _parse_checksums returns is the table of the remaining lines, so the
\* line adds no entry and the lines around it are still parsed.
C22_MalformedSkipped ==
  fn.name \in {"_parse_checksums", "_parse_checksums again"}
    => fn.out = TableOf(WellFormed(fn.arg))

\* C22 for lines of one token only: the table is that of the lines with
\* the one-token lines left out.
C22_OneTokenSkipped ==
  (fn.name \in {"_parse_checksums", "_parse_checksums again"}
     /\ \A i \in 1..Len(fn.arg) : Len(Tokens(fn.arg[i].text)) <= 2)
    => /\ fn.out = TableOf(WellFormed(fn.arg))
       /\ \A i \in 1..Len(fn.arg) :
            Malformed(fn.arg[i]) => fn.arg[i].filename \notin DOMAIN fn.out

\* The command words of the wrappers that take a selector.
SelectorMethods == {"tap", "double-tap", "long-press", "type", "swipe"}

\* The last call got a target: a string that is not empty.
TargetGiven == client.selector.target.type = "str" /\ client.selector.target.s # <<>>

\* The last call got both coordinates.
PairGiven == client.selector.x # PyNone /\ client.selector.y # PyNone

\* The last call got at least one coordinate.
SomeCoordinate == client.selector.x # PyNone \/ client.selector.y # PyNone

\* The selector flags of the command line of the last call, in order.
SelectorFlags ==
  SelectSeq(client.cmd, LAMBDA a : a \in {"--target", "--x", "--y"})

\* C23: tap, double_tap, long_press, type_text and swipe take exactly one
\* of a target or a complete x/y pair.  With a target beside x or y, and
\* with no target and x or y missing, the wrapper raises ValueError and
\* runs no child; otherwise it runs the child with "--target <t>" when the
\* target is given, and with "--x <x> --y <y>" when the pair is, right
\* after the command word.  An empty string as target counts as no target.
C23_TargetOrCoordinates ==
  client.method \in SelectorMethods
    => IF (TargetGiven /\ SomeCoordinate) \/ (~TargetGiven /\ ~PairGiven)
         THEN /\ client.ret.kind = "raise" /\ client.ret.exc = "ValueError"
              /\ ~RanChild
              /\ client.completed = NoCompleted
              /\ client.session_index = client.before
         ELSE /\ RanChild
              /\ SubSeq(client.cmd, 1, 3) = <<"revyl", "device", client.method>>
              /\ IF TargetGiven
                   THEN /\ SubSeq(client.cmd, 4, 5)
                             = <<"--target", client.selector.target.s[1]>>
                        /\ SelectorFlags = <<"--target">>
                   ELSE /\ SubSeq(client.cmd, 4, 7)
                             = <<"--x", Str(client.selector.x),
                                 "--y", Str(client.selector.y)>>
                        /\ SelectorFlags = <<"--x", "--y">>

\* swipe got a target beside x = 0, a session being tracked: it raised
\* ValueError and ran nothing.
C23_Witness ==
  /\ client.method = "swipe"
  /\ TargetGiven
  /\ client.selector.x = PyInt(0) /\ client.selector.y = PyNone
  /\ client.before # PyNone
  /\ client.ret.exc = "ValueError"
  /\ ~RanChild

\* The last call ended with RevylError.
FailedWithRevylError == client.ret.kind = "raise" /\ client.ret.exc = "RevylError"

\* The child of the last call ran and RevylCLI.run returned its output.
CommandSucceeded == RanChild /\ client.ran.kind = "return"

\* C24, failures: a call that ends with RevylError leaves the tracked
\* session what it was before the call, and the tracked session differs
\* from what it was only after a command that succeeded.
C24_FailureKeepsIndex ==
  client.method # ""
    => /\ FailedWithRevylError => client.session_index = client.before
       /\ client.session_index # client.before => CommandSucceeded

\* C24, successes: use_session tracks the index it was given, start_session
\* the integer index of its result, stop_all tracks nothing, and
\* stop_session tracks nothing when it stopped the tracked session.
C24_SuccessUpdatesIndex ==
  (client.method # "" /\ CommandSucceeded)
    => /\ client.method = "use_session"
            => (client.session_index \in Indexes
                  /\ client.cmd = <<"revyl", "device", "use", Str(client.session_index)>>)
       /\ (client.method = "start_session" /\ StartedWithIndex)
            => client.session_index = client.ran.value.map["index"]
       /\ client.method = "stop_all" => client.session_index = PyNone
       /\ (client.method = "stop_session"
             /\ client.before # PyNone
             /\ (client.explicit = PyNone \/ PyEq(client.explicit, client.before)))
            => client.session_index = PyNone
       /\ client.method \in SelectorMethods \cup {"info", "doctor"}
            => client.session_index = client.before

\* C24: over any sequence of DeviceClient calls the tracked session index
\* changes only when a command succeeds, as the two parts say.
C24_IndexChangesOnSuccess == C24_FailureKeepsIndex /\ C24_SuccessUpdatesIndex

\* C24 for every call but stop_all.
C24_ExceptStopAll == client.method # "stop_all" => C24_IndexChangesOnSuccess

\* download_binary ran to its return in p's call, entered directly or
\* through ensure_binary.
Downloaded(p) ==
  /\ Done(p) /\ res[p].kind = "return"
  /\ call[p].module = "_binary"
  /\ loc[p].verified

\* C25: once two processes that share the artifact path have each run
\* download_binary to its return, whatever the interleaving of their steps
\* and whether or not they fetched the same release contents, the sidecar
\* holds the SHA-256 of the binary at the final path.
C25_SharedPathTrusted ==
  (/\ Cardinality(procs) = 2
   /\ \A p \in procs : Downloaded(p))
    => Trusted(bin, sidecar)

\* C25 when both processes fetched the same contents.
C25_SameContentsTrusted ==
  (/\ Cardinality(procs) = 2
   /\ \A p \in procs : Downloaded(p)
   /\ \A p, q \in procs : loc[p].downloaded = loc[q].downloaded)
    => Trusted(bin, sidecar)

====
